---- MODULE Spec2Model ----
(***************************************************************************)
(* Model of config/airflow/dags/example_dag.py: the module body that       *)
(* builds the workflow 'example_devarch' (default_args, the DAG, the two   *)
(* BashOperator units and the precedence edge), followed by the runs the   *)
(* host scheduler makes of the loaded workflow.  The load steps are        *)
(* translated statement by statement from the file.  The scheduler is not  *)
(* part of the file: its steps follow the contract the specification       *)
(* states (a unit starts only after its upstream units completed; retry    *)
(* count and delay are taken from the configuration) and read every        *)
(* parameter from the structures the file built.                           *)
(***************************************************************************)
EXTENDS Integers, Sequences, FiniteSets, TLC

VARIABLES pc, default_args, dag, t1, t2, runs

vars == <<pc, default_args, dag, t1, t2, runs>>

\* Number of runs of the workflow the scheduler creates (runs are concurrent).
MaxRuns == 2

\* A module-level name that is not bound yet.
Unbound == [bound |-> FALSE]

\* Python's None for a name that holds a reference to a task.
None == "None"

\* dag.task_dict of a DAG that has no task yet.
EmptyTaskDict == [id \in {} |-> Unbound]

\* datetime.timedelta: the constructor normalises to days and seconds.
timedelta(days, minutes) ==
    LET total == days * 86400 + minutes * 60
    IN  [days |-> total \div 86400, seconds |-> total % 86400]

\* datetime.datetime(year, month, day)
datetime(year, month, day) == [year |-> year, month |-> month, day |-> day]

\* DefaultArgsLiteral with 'retries': 2 written instead of 1.
DefaultArgsLiteral_Retries2 ==
    [ owner            |-> "devarch",
      depends_on_past  |-> FALSE,
      start_date       |-> datetime(2024, 1, 1),
      email_on_failure |-> FALSE,
      email_on_retry   |-> FALSE,
      retries          |-> 2,
      retry_delay      |-> timedelta(0, 5) ]

\* The dict literal of lines 9-17.
DefaultArgsLiteral ==
    [ owner            |-> "devarch",
      depends_on_past  |-> FALSE,
      start_date       |-> datetime(2024, 1, 1),
      email_on_failure |-> FALSE,
      email_on_retry   |-> FALSE,
      retries          |-> 1,
      retry_delay      |-> timedelta(0, 5) ]

\* DAG with the catchup=False argument left out: catch-up stays enabled.
DAG_DefaultCatchup(dag_id, args, description, schedule_interval, catchup) ==
    [ dag_id            |-> dag_id,
      default_args      |-> args,
      description       |-> description,
      schedule_interval |-> schedule_interval,
      catchup           |-> TRUE,
      task_dict         |-> EmptyTaskDict ]

\* DAG(dag_id, default_args=..., description=..., schedule_interval=..., catchup=...)
DAG(dag_id, args, description, schedule_interval, catchup) ==
    [ dag_id            |-> dag_id,
      default_args      |-> args,
      description       |-> description,
      schedule_interval |-> schedule_interval,
      catchup           |-> catchup,
      task_dict         |-> EmptyTaskDict ]

\* BashOperator with the task id passed as the command.
BashOperator_CommandIsId(task_id, bash_command, d) ==
    [ task_id             |-> task_id,
      bash_command        |-> task_id,
      dag                 |-> d.dag_id,
      owner               |-> d.default_args.owner,
      retries             |-> d.default_args.retries,
      retry_delay         |-> d.default_args.retry_delay,
      email_on_failure    |-> d.default_args.email_on_failure,
      email_on_retry      |-> d.default_args.email_on_retry,
      depends_on_past     |-> d.default_args.depends_on_past,
      start_date          |-> d.default_args.start_date,
      upstream_task_ids   |-> {},
      downstream_task_ids |-> {} ]

\* BashOperator that does not keep the reference to its workflow.
BashOperator_NoBackReference(task_id, bash_command, d) ==
    [ task_id             |-> task_id,
      bash_command        |-> bash_command,
      dag                 |-> None,
      owner               |-> d.default_args.owner,
      retries             |-> d.default_args.retries,
      retry_delay         |-> d.default_args.retry_delay,
      email_on_failure    |-> d.default_args.email_on_failure,
      email_on_retry      |-> d.default_args.email_on_retry,
      depends_on_past     |-> d.default_args.depends_on_past,
      start_date          |-> d.default_args.start_date,
      upstream_task_ids   |-> {},
      downstream_task_ids |-> {} ]

\* BashOperator(task_id=..., bash_command=..., dag=d): the unit takes the
\* execution policy of d.default_args and refers back to d.
BashOperator(task_id, bash_command, d) ==
    [ task_id             |-> task_id,
      bash_command        |-> bash_command,
      dag                 |-> d.dag_id,
      owner               |-> d.default_args.owner,
      retries             |-> d.default_args.retries,
      retry_delay         |-> d.default_args.retry_delay,
      email_on_failure    |-> d.default_args.email_on_failure,
      email_on_retry      |-> d.default_args.email_on_retry,
      depends_on_past     |-> d.default_args.depends_on_past,
      start_date          |-> d.default_args.start_date,
      upstream_task_ids   |-> {},
      downstream_task_ids |-> {} ]

\* add_task that rebuilds the descriptor and loses its catch-up setting.
add_task_Rebuild(d, task) ==
    [ dag_id            |-> d.dag_id,
      default_args      |-> d.default_args,
      description       |-> d.description,
      schedule_interval |-> d.schedule_interval,
      catchup           |-> TRUE,
      task_dict         |->
        [id \in (DOMAIN d.task_dict) \cup {task.task_id} |->
            IF id = task.task_id THEN task ELSE d.task_dict[id]] ]

\* dag=d in the operator's constructor registers the unit in d.task_dict.
add_task(d, task) ==
    [d EXCEPT !.task_dict =
        [id \in (DOMAIN d.task_dict) \cup {task.task_id} |->
            IF id = task.task_id THEN task ELSE d.task_dict[id]]]

\* The statement t1 >> t2 left out.
RShift_Missing(td, a, b) == td

\* The operands swapped: t2 >> t1.
RShift_Reversed(td, a, b) ==
    [td EXCEPT ![b].downstream_task_ids = @ \cup {a},
               ![a].upstream_task_ids   = @ \cup {b}]

\* Only the downstream side of the edge is recorded.
RShift_DownstreamOnly(td, a, b) ==
    [td EXCEPT ![a].downstream_task_ids = @ \cup {b}]

\* The edge is recorded in both directions.
RShift_BothWays(td, a, b) ==
    [td EXCEPT ![a].downstream_task_ids = @ \cup {b},
               ![b].upstream_task_ids   = @ \cup {a},
               ![b].downstream_task_ids = @ \cup {a},
               ![a].upstream_task_ids   = @ \cup {b}]

\* a >> b : b becomes downstream of a, a becomes upstream of b.
RShift(td, a, b) ==
    [td EXCEPT ![a].downstream_task_ids = @ \cup {b},
               ![b].upstream_task_ids   = @ \cup {a}]

Init ==
    /\ pc = "default_args"
    /\ default_args = Unbound
    /\ dag = Unbound
    /\ t1 = None
    /\ t2 = None
    /\ runs = <<>>

(* ---------------- loading the file, statement by statement ------------- *)

\* lines 9-17
BuildDefaultArgs ==
    /\ pc = "default_args"
    /\ default_args' = DefaultArgsLiteral
    /\ pc' = "dag"
    /\ UNCHANGED <<dag, t1, t2, runs>>

\* lines 19-25
BuildDag ==
    /\ pc = "dag"
    /\ dag' = DAG("example_devarch", default_args, "Example DAG for DevArch",
                  timedelta(1, 0), FALSE)
    /\ pc' = "t1"
    /\ UNCHANGED <<default_args, t1, t2, runs>>

\* lines 27-31
CreateT1 ==
    /\ pc = "t1"
    /\ LET task == BashOperator("print_date", "date", dag)
       IN  /\ dag' = add_task(dag, task)
           /\ t1' = task.task_id
    /\ pc' = "t2"
    /\ UNCHANGED <<default_args, t2, runs>>

\* lines 33-37
CreateT2 ==
    /\ pc = "t2"
    /\ LET task == BashOperator("hello_world",
                                "echo \"Hello from DevArch workflow!\"", dag)
       IN  /\ dag' = add_task(dag, task)
           /\ t2' = task.task_id
    /\ pc' = "edge"
    /\ UNCHANGED <<default_args, t1, runs>>

\* line 39
SetPrecedence ==
    /\ pc = "edge"
    /\ dag' = [dag EXCEPT !.task_dict = RShift(dag.task_dict, t1, t2)]
    /\ pc' = "loaded"
    /\ UNCHANGED <<default_args, t1, t2, runs>>

Load == BuildDefaultArgs \/ BuildDag \/ CreateT1 \/ CreateT2 \/ SetPrecedence

(* ---------------- the host scheduler running the loaded workflow ------- *)

TaskIds == DOMAIN dag.task_dict

RunIds == 1..Len(runs)

\* A task instance that has not been scheduled yet.
NewTaskInstance == [state |-> "none", try_number |-> 0, exits |-> <<>>]

\* Every upstream unit of t succeeded in run r.
UpstreamDone(r, t) ==
    \A u \in dag.task_dict[t].upstream_task_ids : runs[r][u].state = "success"

\* Some upstream unit of t can no longer succeed in run r.
UpstreamBroken(r, t) ==
    \E u \in dag.task_dict[t].upstream_task_ids :
        runs[r][u].state \in {"failed", "upstream_failed"}

\* The scheduler creates a run of the workflow.
CreateRun ==
    /\ pc = "loaded"
    /\ Len(runs) < MaxRuns
    /\ runs' = Append(runs, [t \in TaskIds |-> NewTaskInstance])
    /\ UNCHANGED <<pc, default_args, dag, t1, t2>>

\* First attempt of unit t in run r.
StartTask(r, t) ==
    /\ runs[r][t].state = "none"
    /\ UpstreamDone(r, t)
    /\ runs' = [runs EXCEPT ![r][t].state = "running",
                            ![r][t].try_number = @ + 1]
    /\ UNCHANGED <<pc, default_args, dag, t1, t2>>

\* A further attempt of a unit that is waiting for its retry.
RetryTask(r, t) ==
    /\ runs[r][t].state = "up_for_retry"
    /\ UpstreamDone(r, t)
    /\ runs' = [runs EXCEPT ![r][t].state = "running",
                            ![r][t].try_number = @ + 1]
    /\ UNCHANGED <<pc, default_args, dag, t1, t2>>

\* The command of the running attempt exits with status 0.
TaskSucceeds(r, t) ==
    /\ runs[r][t].state = "running"
    /\ runs' = [runs EXCEPT ![r][t].state = "success",
                            ![r][t].exits = Append(@, 0)]
    /\ UNCHANGED <<pc, default_args, dag, t1, t2>>

\* The command of the running attempt exits with a non-zero status: the unit
\* waits for a retry while retries are left, and fails otherwise.
TaskFails(r, t) ==
    /\ runs[r][t].state = "running"
    /\ runs' = [runs EXCEPT
                  ![r][t].state = IF runs[r][t].try_number <= dag.task_dict[t].retries
                                  THEN "up_for_retry" ELSE "failed",
                  ![r][t].exits = Append(@, 1)]
    /\ UNCHANGED <<pc, default_args, dag, t1, t2>>

\* A unit whose upstream cannot succeed any more is never started.
MarkUpstreamFailed(r, t) ==
    /\ runs[r][t].state = "none"
    /\ UpstreamBroken(r, t)
    /\ runs' = [runs EXCEPT ![r][t].state = "upstream_failed"]
    /\ UNCHANGED <<pc, default_args, dag, t1, t2>>

RunStep(r) ==
    \E t \in DOMAIN runs[r] :
        \/ StartTask(r, t)
        \/ RetryTask(r, t)
        \/ TaskSucceeds(r, t)
        \/ TaskFails(r, t)
        \/ MarkUpstreamFailed(r, t)

Next ==
    \/ BuildDefaultArgs
    \/ BuildDag
    \/ CreateT1
    \/ CreateT2
    \/ SetPrecedence
    \/ CreateRun
    \/ \E r \in RunIds : \E t \in DOMAIN runs[r] : StartTask(r, t)
    \/ \E r \in RunIds : \E t \in DOMAIN runs[r] : RetryTask(r, t)
    \/ \E r \in RunIds : \E t \in DOMAIN runs[r] : TaskSucceeds(r, t)
    \/ \E r \in RunIds : \E t \in DOMAIN runs[r] : TaskFails(r, t)
    \/ \E r \in RunIds : \E t \in DOMAIN runs[r] : MarkUpstreamFailed(r, t)

Spec == Init /\ [][Next]_vars

\* The loader runs the module body to its end and the scheduler keeps
\* working on every run it created.
FairSpec ==
    /\ Spec
    /\ WF_vars(Load)
    /\ \A r \in 1..MaxRuns : WF_vars(r \in RunIds /\ RunStep(r))

(* ------------------------------ properties ----------------------------- *)

\* The unit has had at least one attempt in run r (it is running or finished
\* an attempt).
Started(r, t) == runs[r][t].try_number > 0

\* The precedence edges, read from the downstream sets and from the upstream sets.
DownEdges ==
    {e \in TaskIds \X TaskIds : e[2] \in dag.task_dict[e[1]].downstream_task_ids}

UpEdges ==
    {e \in TaskIds \X TaskIds : e[1] \in dag.task_dict[e[2]].upstream_task_ids}

\* C1: in every run, whenever 'hello_world' is running or has finished an
\* attempt, 'print_date' has completed successfully in that same run.
C1_HelloAfterPrintDate ==
    \A r \in RunIds :
        (Started(r, "hello_world") \/ runs[r]["hello_world"].state
              \in {"running", "success", "failed", "up_for_retry"})
        => runs[r]["print_date"].state = "success"

C1_Witness ==
    \E r \in RunIds : /\ runs[r]["hello_world"].state = "running"
                      /\ runs[r]["print_date"].state = "success"

\* C2: the loaded workflow has exactly one precedence edge, from 'print_date'
\* to 'hello_world': 'print_date' has no upstream, 'hello_world' has no
\* downstream, there is no reverse edge and no self-edge.
C2_SingleEdge ==
    pc = "loaded" =>
        /\ DownEdges = {<<"print_date", "hello_world">>}
        /\ UpEdges = {<<"print_date", "hello_world">>}
        /\ Cardinality(DownEdges) = 1
        /\ dag.task_dict["print_date"].upstream_task_ids = {}
        /\ dag.task_dict["hello_world"].downstream_task_ids = {}
        /\ <<"hello_world", "print_date">> \notin DownEdges \cup UpEdges
        /\ \A t \in TaskIds : <<t, t>> \notin DownEdges \cup UpEdges
        /\ t1 = "print_date" /\ t2 = "hello_world"

C2_Witness ==
    /\ pc = "loaded"
    /\ t2 \in dag.task_dict[t1].downstream_task_ids

\* C3: the loaded workflow has exactly two units, 'print_date' with command
\* 'date' and 'hello_world' with command 'echo "Hello from DevArch workflow!"';
\* the identifiers differ and no other unit is registered at any time.
C3_TwoUnits ==
    /\ pc \in {"t1", "t2", "edge", "loaded"} =>
          TaskIds \subseteq {"print_date", "hello_world"}
    /\ pc = "loaded" =>
        /\ TaskIds = {"print_date", "hello_world"}
        /\ Cardinality(TaskIds) = 2
        /\ t1 # t2
        /\ \A id \in TaskIds : dag.task_dict[id].task_id = id
        /\ dag.task_dict[t1].task_id = "print_date"
        /\ dag.task_dict[t1].bash_command = "date"
        /\ dag.task_dict[t2].task_id = "hello_world"
        /\ dag.task_dict[t2].bash_command = "echo \"Hello from DevArch workflow!\""

C3_Witness ==
    /\ pc = "loaded"
    /\ Cardinality(TaskIds) = 2
    /\ dag.task_dict[t1].bash_command = "date"

\* C4: once the descriptor is constructed its configured values are the
\* literals: retry count 1, retry delay 5 minutes (300 seconds), cadence of
\* 1 day, catch-up off, failure and retry e-mail notifications off.
C4_ConfiguredValues ==
    dag # Unbound =>
        /\ dag.default_args.retries = 1
        /\ dag.default_args.retry_delay.days = 0
        /\ dag.default_args.retry_delay.seconds = 5 * 60
        /\ dag.schedule_interval.days = 1
        /\ dag.schedule_interval.seconds = 0
        /\ dag.catchup = FALSE
        /\ dag.default_args.email_on_failure = FALSE
        /\ dag.default_args.email_on_retry = FALSE

C4_Witness ==
    /\ dag # Unbound
    /\ dag.dag_id = "example_devarch"
    /\ dag.default_args.retries = 1
    /\ runs # <<>>

\* C5: both units are registered in the one descriptor 'example_devarch', each
\* unit's back-reference names that descriptor, and the precedence edge joins
\* two units of that descriptor.
C5_SameWorkflow ==
    pc = "loaded" =>
        /\ dag.dag_id = "example_devarch"
        /\ {t1, t2} \subseteq TaskIds
        /\ \A id \in TaskIds : dag.task_dict[id].dag = dag.dag_id
        /\ \A id \in TaskIds :
              dag.task_dict[id].upstream_task_ids
                 \cup dag.task_dict[id].downstream_task_ids \subseteq TaskIds
        /\ DownEdges # {}

C5_Witness ==
    /\ pc = "loaded"
    /\ dag.task_dict[t1].dag = "example_devarch"
    /\ dag.task_dict[t2].dag = "example_devarch"

\* C6: once default_args and the descriptor are constructed, no later step
\* changes default_args, the descriptor's copy of it, its description, its
\* schedule cadence or its catch-up setting.
C6_ConfigurationFrame ==
    [][ /\ default_args # Unbound => default_args' = default_args
        /\ dag # Unbound =>
              /\ dag'.default_args = dag.default_args
              /\ dag'.description = dag.description
              /\ dag'.schedule_interval = dag.schedule_interval
              /\ dag'.catchup = dag.catchup ]_vars

C6_Witness ==
    /\ pc = "loaded"
    /\ default_args.retries = 1
    /\ dag.description = "Example DAG for DevArch"
    /\ dag.default_args = default_args

\* C7: with retries = 1 every unit has at most 2 attempts in a run, a failed
\* unit has used both, and a failed unit is not attempted again.
C7_AtMostTwoAttempts ==
    /\ [](\A r \in RunIds : \A t \in DOMAIN runs[r] :
            /\ runs[r][t].try_number <= 2
            /\ Len(runs[r][t].exits) <= 2
            /\ runs[r][t].state = "failed" => runs[r][t].try_number = 2)
    /\ [][\A r \in RunIds : \A t \in DOMAIN runs[r] :
            runs[r][t].state = "failed" => runs'[r][t] = runs[r][t]]_vars

C7_Witness ==
    \E r \in RunIds : \E t \in DOMAIN runs[r] :
        /\ runs[r][t].state = "failed"
        /\ runs[r][t].try_number = 2
        /\ runs[r][t].exits = <<1, 1>>

\* C8: in a run where 'print_date' ended failed, 'hello_world' has had no
\* attempt and is not running.
C8_NoStartAfterUpstreamFailure ==
    \A r \in RunIds :
        runs[r]["print_date"].state = "failed" =>
            /\ ~Started(r, "hello_world")
            /\ runs[r]["hello_world"].exits = <<>>
            /\ runs[r]["hello_world"].state \in {"none", "upstream_failed"}

C8_Witness ==
    \E r \in RunIds : /\ runs[r]["print_date"].state = "failed"
                      /\ runs[r]["print_date"].exits = <<1, 1>>
                      /\ runs[r]["hello_world"].state = "upstream_failed"

\* The units reachable from the set S along at most n precedence edges.
RECURSIVE Descendants(_, _)
Descendants(S, n) ==
    IF n = 0 THEN S
    ELSE Descendants(S \cup UNION {dag.task_dict[t].downstream_task_ids : t \in S},
                     n - 1)

Acyclic ==
    \A t \in TaskIds :
        t \notin Descendants(dag.task_dict[t].downstream_task_ids,
                             Cardinality(TaskIds))

\* The final states of a unit: succeeded, failed, or never started because
\* its upstream failed.
FinalUnit(r, t) ==
    \/ runs[r][t].state = "success"
    \/ runs[r][t].state = "failed"
    \/ /\ runs[r][t].state = "upstream_failed"
       /\ ~Started(r, t)
       /\ UpstreamBroken(r, t)

Final(r) == r \in RunIds /\ \A t \in DOMAIN runs[r] : FinalUnit(r, t)

\* No attempt of any unit of run r exited with a failure.
NoCommandFailed(r) ==
    \A t \in DOMAIN runs[r] :
        \A i \in 1..Len(runs[r][t].exits) : runs[r][t].exits[i] = 0

\* C9: the precedence graph is acyclic and, under fair scheduling, every run
\* reaches a final state (each unit succeeded, failed, or never started
\* because its upstream failed); a final run in which no command failed has
\* both units succeeded.
C9_RunsTerminate ==
    /\ [](pc = "loaded" => Acyclic)
    /\ \A r \in 1..MaxRuns : (r \in RunIds) ~> Final(r)
    /\ [](\A r \in RunIds :
            (Final(r) /\ NoCommandFailed(r)) =>
                /\ DOMAIN runs[r] = {"print_date", "hello_world"}
                /\ \A t \in DOMAIN runs[r] : runs[r][t].state = "success")

C9_Witness ==
    \E r \in RunIds : /\ Final(r)
                      /\ NoCommandFailed(r)
                      /\ runs[r]["print_date"].state = "success"
                      /\ runs[r]["hello_world"].state = "success"

====
